---------------------------- MODULE Spec2Model ----------------------------
(***************************************************************************)
(* A model of xltable/expression.py: the expression tree that resolves     *)
(* label based references (Cell, Column, Index, Range), function calls     *)
(* (Formula), binary operations (BinOp), constants (ConstExpr,             *)
(* ArrayConstant) and array formulas (ArrayExpression) into formula text.  *)
(*                                                                         *)
(* Text is a sequence of one-character strings, so that formatting,        *)
(* stripping and concatenation are computed character by character.        *)
(* Python's None / True / False, where an attribute may hold any of the    *)
(* three, are the strings "None", "True", "False".                         *)
(***************************************************************************)
EXTENDS Integers, Sequences, FiniteSets, TLC

VARIABLES
    layout,   \* the workbook's physical layout (the external collaborator)
    heap,     \* the Expression objects constructed so far, in creation order
    call      \* the last call made by the caller, with its outcome

vars == <<layout, heap, call>>

---------------------------------------------------------------------------
(* Bounds of the model *)

\* ambient row / col arguments of resolve and get_formula range over 0..MaxRow
MaxRow == 1
\* table top rows range over 0..MaxTop
MaxTop == 1
\* _to_addr is applied to rows 0..MaxAddrRow and columns 0..MaxAddrCol
MaxAddrRow == 11
MaxAddrCol == 704
\* number of Expression objects a session constructs
MaxNodes == 3

---------------------------------------------------------------------------
(* Text helpers *)

Alphabet ==
    << "A", "B", "C", "D", "E", "F", "G", "H", "I", "J", "K", "L", "M",
       "N", "O", "P", "Q", "R", "S", "T", "U", "V", "W", "X", "Y", "Z" >>

Digits == << "0", "1", "2", "3", "4", "5", "6", "7", "8", "9" >>

RECURSIVE NatText(_)
\* str(n) / "%d" % n for n >= 0
NatText(n) ==
    IF n < 10 THEN << Digits[n + 1] >>
    ELSE NatText(n \div 10) \o << Digits[(n % 10) + 1] >>

\* str(n) / "%d" % n for an int
IntText(n) == IF n < 0 THEN << "-" >> \o NatText(0 - n) ELSE NatText(n)

RECURSIVE Join(_, _)
\* sep.join(parts)
Join(parts, sep) ==
    IF Len(parts) = 0 THEN << >>
    ELSE IF Len(parts) = 1 THEN parts[1]
    ELSE parts[1] \o sep \o Join(Tail(parts), sep)

RECURSIVE LStripChars(_, _)
LStripChars(x, chars) ==
    IF Len(x) > 0 /\ x[1] \in chars THEN LStripChars(Tail(x), chars) ELSE x

RECURSIVE RStripChars(_, _)
RStripChars(x, chars) ==
    IF Len(x) > 0 /\ x[Len(x)] \in chars
    THEN RStripChars(SubSeq(x, 1, Len(x) - 1), chars)
    ELSE x

\* x.strip(chars): every leading and every trailing character that is in
\* chars is removed (str.strip takes a set of characters, not a wrapper)
StripChars(x, chars) == RStripChars(LStripChars(x, chars), chars)

\* x.strip("()") in place of the regular expression: every leading and
\* trailing parenthesis goes, not one matching pair
_stripEveryParenthesis(x) == StripChars(x, {"(", ")"})

\* re.sub("^\((.*)\)$", r"\1", x): when x starts with "(" and ends with ")"
\* the greedy group is everything between the first and the last character
\* (the texts of the model hold no line break, which "." would not match)
_strip(x) ==
    IF Len(x) >= 2 /\ x[1] = "(" /\ x[Len(x)] = ")"
    THEN SubSeq(x, 2, Len(x) - 1)
    ELSE x

---------------------------------------------------------------------------
(* Address codec *)

RECURSIVE ColLettersZeroDigit(_)
\* plain base 26, with a zero digit: col % 26 and col // 26
ColLettersZeroDigit(col) ==
    IF col > 0
    THEN ColLettersZeroDigit(col \div 26) \o << Alphabet[(col % 26) + 1] >>
    ELSE << >>

RECURSIVE ColLetters(_)
\* the while loop of _to_addr on the already incremented col:
\*   addr = chr(A + ((col - 1) % 26)) + addr ; col = (col - 1) // 26
ColLetters(col) ==
    IF col > 0
    THEN ColLetters((col - 1) \div 26) \o << Alphabet[((col - 1) % 26) + 1] >>
    ELSE << >>

\* a worksheet name is text; the empty text stands for None
_to_addr(worksheet, row, col, row_fixed, col_fixed) ==
    LET addr         == ColLetters(col + 1)
        prefix       == IF Len(worksheet) > 0
                        THEN << "'" >> \o worksheet \o << "'", "!" >>
                        ELSE << >>
        col_modifier == IF col_fixed THEN << "$" >> ELSE << >>
        row_modifier == IF row_fixed THEN << "$" >> ELSE << >>
    IN  prefix \o col_modifier \o addr \o row_modifier \o IntText(row + 1)

---------------------------------------------------------------------------
(* Python values held by Expression.value, and the operators of BinOp *)

\* A value is a record of one shape: k is the Python type, n/d the number
\* (d = 1 for int and bool, a normalised fraction for the float a true
\* division gives), s the text of a str, a the rows of a 2-D list.
IntVal(n)   == [k |-> "int",   n |-> n, d |-> 1, s |-> << >>, a |-> << >>]
BoolVal(b)  == [k |-> "bool",  n |-> IF b THEN 1 ELSE 0, d |-> 1,
                s |-> << >>, a |-> << >>]
StrVal(s)   == [k |-> "str",   n |-> 0, d |-> 1, s |-> s, a |-> << >>]
ListVal(a)  == [k |-> "list",  n |-> 0, d |-> 1, s |-> << >>, a |-> a]

Abs(x) == IF x < 0 THEN 0 - x ELSE x

RECURSIVE Gcd(_, _)
Gcd(x, y) == IF y = 0 THEN x ELSE Gcd(y, x % y)

\* the float n/d, d # 0
FloatVal(n, d) ==
    LET g   == Gcd(Abs(n), Abs(d))
        sgn == IF d < 0 THEN 0 - 1 ELSE 1
    IN  [k |-> "float", n |-> (sgn * n) \div g, d |-> (sgn * d) \div g,
         s |-> << >>, a |-> << >>]

IsNum(v)     == v.k \in {"int", "bool", "float"}
IsIntLike(v) == v.k \in {"int", "bool"}

RECURSIVE BitAnd(_, _)
\* int & int on Python's unbounded two's complement integers
BitAnd(x, y) ==
    IF x = 0 \/ y = 0 THEN 0
    ELSE IF x = 0 - 1 THEN y
    ELSE IF y = 0 - 1 THEN x
    ELSE ((x % 2) * (y % 2)) + 2 * BitAnd(x \div 2, y \div 2)

RECURSIVE BitOr(_, _)
\* int | int
BitOr(x, y) ==
    IF x = 0 THEN y
    ELSE IF y = 0 THEN x
    ELSE IF x = 0 - 1 \/ y = 0 - 1 THEN 0 - 1
    ELSE (IF (x % 2) + (y % 2) > 0 THEN 1 ELSE 0)
         + 2 * BitOr(x \div 2, y \div 2)

\* the code point order of the characters the model's str values use
CharOrd(c) ==
    LET chars == Alphabet \o << "x", "y" >>
    IN  CHOOSE i \in 1..Len(chars) : chars[i] = c

RECURSIVE TextLess(_, _)
\* str < str: lexicographic by code point
TextLess(s, t) ==
    IF Len(t) = 0 THEN FALSE
    ELSE IF Len(s) = 0 THEN TRUE
    ELSE IF CharOrd(s[1]) < CharOrd(t[1]) THEN TRUE
    ELSE IF CharOrd(t[1]) < CharOrd(s[1]) THEN FALSE
    ELSE TextLess(Tail(s), Tail(t))

RECURSIVE RowLess(_, _)
\* list < list for two rows of ints
RowLess(s, t) ==
    IF Len(t) = 0 THEN FALSE
    ELSE IF Len(s) = 0 THEN TRUE
    ELSE IF s[1] < t[1] THEN TRUE
    ELSE IF t[1] < s[1] THEN FALSE
    ELSE RowLess(Tail(s), Tail(t))

RECURSIVE ArrayLess(_, _)
\* list < list for two lists of rows
ArrayLess(s, t) ==
    IF Len(t) = 0 THEN FALSE
    ELSE IF Len(s) = 0 THEN TRUE
    ELSE IF RowLess(s[1], t[1]) THEN TRUE
    ELSE IF RowLess(t[1], s[1]) THEN FALSE
    ELSE ArrayLess(Tail(s), Tail(t))

RECURSIVE Repeat(_, _)
\* seq * n
Repeat(s, n) == IF n <= 0 THEN << >> ELSE s \o Repeat(s, n - 1)

Ok(v)    == [ok |-> TRUE,  v |-> v,         err |-> ""]
Raise(e) == [ok |-> FALSE, v |-> IntVal(0), err |-> e]

\* x == y
PyEq(x, y) ==
    IF IsNum(x) /\ IsNum(y) THEN x.n * y.d = y.n * x.d
    ELSE IF x.k = "str" /\ y.k = "str" THEN x.s = y.s
    ELSE IF x.k = "list" /\ y.k = "list" THEN x.a = y.a
    ELSE FALSE

\* x < y, defined between two numbers, two strs and two lists
PyLt(x, y) ==
    IF IsNum(x) /\ IsNum(y) THEN Ok(BoolVal(x.n * y.d < y.n * x.d))
    ELSE IF x.k = "str" /\ y.k = "str"
    THEN Ok(BoolVal(TextLess(x.s, y.s)))
    ELSE IF x.k = "list" /\ y.k = "list"
    THEN Ok(BoolVal(ArrayLess(x.a, y.a)))
    ELSE Raise("TypeError")

\* x <= y
PyLe(x, y) ==
    IF PyLt(x, y).ok THEN Ok(BoolVal(PyLt(x, y).v.n = 1 \/ PyEq(x, y)))
    ELSE Raise("TypeError")

\* an int result when both operands are int or bool, a float otherwise
NumResult(x, y, n, d) ==
    IF IsIntLike(x) /\ IsIntLike(y) THEN IntVal(n) ELSE FloatVal(n, d)

operator_add(x, y) ==
    IF IsNum(x) /\ IsNum(y)
    THEN Ok(NumResult(x, y, x.n * y.d + y.n * x.d, x.d * y.d))
    ELSE IF x.k = "str" /\ y.k = "str" THEN Ok(StrVal(x.s \o y.s))
    ELSE IF x.k = "list" /\ y.k = "list" THEN Ok(ListVal(x.a \o y.a))
    ELSE Raise("TypeError")

operator_sub(x, y) ==
    IF IsNum(x) /\ IsNum(y)
    THEN Ok(NumResult(x, y, x.n * y.d - y.n * x.d, x.d * y.d))
    ELSE Raise("TypeError")

operator_mul(x, y) ==
    IF IsNum(x) /\ IsNum(y) THEN Ok(NumResult(x, y, x.n * y.n, x.d * y.d))
    ELSE IF x.k = "str" /\ IsIntLike(y) THEN Ok(StrVal(Repeat(x.s, y.n)))
    ELSE IF IsIntLike(x) /\ y.k = "str" THEN Ok(StrVal(Repeat(y.s, x.n)))
    ELSE IF x.k = "list" /\ IsIntLike(y) THEN Ok(ListVal(Repeat(x.a, y.n)))
    ELSE IF IsIntLike(x) /\ y.k = "list" THEN Ok(ListVal(Repeat(y.a, x.n)))
    ELSE Raise("TypeError")

operator_truediv(x, y) ==
    IF IsNum(x) /\ IsNum(y)
    THEN IF y.n = 0 THEN Raise("ZeroDivisionError")
         ELSE Ok(FloatVal(x.n * y.d, x.d * y.n))
    ELSE Raise("TypeError")

operator_and(x, y) ==
    IF x.k = "bool" /\ y.k = "bool" THEN Ok(BoolVal(x.n = 1 /\ y.n = 1))
    ELSE IF IsIntLike(x) /\ IsIntLike(y) THEN Ok(IntVal(BitAnd(x.n, y.n)))
    ELSE Raise("TypeError")

operator_or(x, y) ==
    IF x.k = "bool" /\ y.k = "bool" THEN Ok(BoolVal(x.n = 1 \/ y.n = 1))
    ELSE IF IsIntLike(x) /\ IsIntLike(y) THEN Ok(IntVal(BitOr(x.n, y.n)))
    ELSE Raise("TypeError")

\* the keys of BinOp.__operators
OperatorKeys ==
    { <<"+">>, <<"-">>, <<"*">>, <<"/">>, <<">">>, <<"<">>, <<"<", "=">>,
      <<">", "=">>, <<"!", "=">>, <<"=">>, <<"&">>, <<"|">> }

\* BinOp.__operators[op](x, y); a missing key raises KeyError
ApplyOperator(op, x, y) ==
    IF op \notin OperatorKeys THEN Raise("KeyError")
    ELSE IF op = <<"+">> THEN operator_add(x, y)
    ELSE IF op = <<"-">> THEN operator_sub(x, y)
    ELSE IF op = <<"*">> THEN operator_mul(x, y)
    ELSE IF op = <<"/">> THEN operator_truediv(x, y)
    ELSE IF op = <<">">> THEN PyLt(y, x)
    ELSE IF op = <<"<">> THEN PyLt(x, y)
    ELSE IF op = <<"<", "=">> THEN PyLe(x, y)
    ELSE IF op = <<">", "=">> THEN PyLe(y, x)
    ELSE IF op = <<"!", "=">> THEN Ok(BoolVal(~PyEq(x, y)))
    ELSE IF op = <<"=">> THEN Ok(BoolVal(PyEq(x, y)))
    ELSE IF op = <<"&">> THEN operator_and(x, y)
    ELSE operator_or(x, y)

---------------------------------------------------------------------------
(* The layout collaborators: workbook, worksheet and table *)

Sheet1 == << "S", "h", "e", "e", "t", "1" >>
Sheet2 == << "S", "h", "e", "e", "t", "2" >>

Found(v)  == [ok |-> TRUE,  v |-> v]
NotFound  == [ok |-> FALSE, v |-> 0]

\* workbook.get_table(name): None is the table the formula is written into,
\* on Sheet1; "T2" is a table of the same shape on Sheet2, placed one row
\* and one column further; any other name is unknown
get_table(lay, name) ==
    IF name = "None"
    THEN [ok |-> TRUE, worksheet |-> Sheet1, top |-> lay.top, left |-> lay.left]
    ELSE IF name = "T2"
    THEN [ok |-> TRUE, worksheet |-> Sheet2,
          top |-> lay.top + 1, left |-> lay.left + 1]
    ELSE [ok |-> FALSE, worksheet |-> << >>, top |-> 0, left |-> 0]

\* table.get_index_offset(): the index is the table's first column
get_index_offset(lay) == 0

\* table.get_column_offset(label): columns "x" and "y" follow the index
\* columns (lay.xoff of them); any other label is unknown
get_column_offset(lay, label) ==
    IF label = "x" THEN Found(lay.xoff)
    ELSE IF label = "y" THEN Found(lay.xoff + 1)
    ELSE NotFound

\* table.get_row_offset(label): the data rows follow the header rows; the
\* first data row is labelled by the int 0 (written "0"), the second "r1"
get_row_offset(lay, label) ==
    IF label = "0" THEN Found(lay.header_height)
    ELSE IF label = "r1" THEN Found(lay.header_height + 1)
    ELSE NotFound

\* the layouts a session may run against: a table of one or two header rows
\* and two data rows, with or without an index column, at row 0..MaxTop and
\* at column A or Z (so that columns reach two letters)
Layouts ==
    [top : 0..MaxTop, left : {0, 25}, height : {3, 4},
     header_height : {1, 2}, xoff : {0, 1}]

---------------------------------------------------------------------------
(* Expression objects *)

\* Every object is a record of one shape; a class uses its own attributes
\* and leaves the others at these defaults.  valset says whether
\* _Expression__value exists, valref (a heap index, 0 for none) that it is
\* an Expression, val its value otherwise.
BaseNode ==
    [kind |-> "", col |-> "", row |-> "None", row_offset |-> 0,
     table |-> "None", col_fixed |-> "None", row_fixed |-> "None",
     include_header |-> FALSE, left_col |-> "", right_col |-> "",
     top |-> "None", bottom |-> "None", name |-> << >>, args |-> << >>,
     expr |-> 0, lhs |-> 0, rhs |-> 0, op |-> << >>,
     cvalue |-> IntVal(0),
     valset |-> FALSE, valref |-> 0, val |-> IntVal(0)]

\* an optional value= keyword: [given |-> FALSE] stands for None
NoValue      == [given |-> FALSE, v |-> IntVal(0)]
Valued(v)    == [given |-> TRUE,  v |-> v]

\* Expression.__init__(value=None)
ExpressionInit(node, value) ==
    IF value.given
    THEN [node EXCEPT !.valset = TRUE, !.valref = 0, !.val = value.v]
    ELSE node

\* Cell.__init__
CellInit(col, row, row_offset, table, col_fixed, row_fixed, value) ==
    [ExpressionInit(BaseNode, value) EXCEPT
        !.kind = "Cell", !.col = col, !.row = row, !.row_offset = row_offset,
        !.table = table, !.col_fixed = col_fixed, !.row_fixed = row_fixed]

\* Column.__init__
ColumnInit(col, include_header, table, col_fixed, row_fixed, value) ==
    [ExpressionInit(BaseNode, value) EXCEPT
        !.kind = "Column", !.col = col, !.include_header = include_header,
        !.table = table, !.col_fixed = col_fixed, !.row_fixed = row_fixed]

\* Column(col, include_header=...) with the defaults of __init__ for the
\* table and the fixed flags
DefaultColumn(col, include_header) ==
    ColumnInit(col, include_header, "None", "True", "True", NoValue)

\* Index.__init__
IndexInit(include_header, table, col_fixed, row_fixed, value) ==
    [ExpressionInit(BaseNode, value) EXCEPT
        !.kind = "Index", !.include_header = include_header,
        !.table = table, !.col_fixed = col_fixed, !.row_fixed = row_fixed]

\* Range.__init__
RangeInit(left_col, right_col, top_row, bottom_row, include_header, table, col_fixed, row_fixed, value) ==
    [ExpressionInit(BaseNode, value) EXCEPT
        !.kind = "Range", !.left_col = left_col, !.right_col = right_col,
        !.top = top_row, !.bottom = bottom_row,
        !.include_header = include_header, !.table = table,
        !.col_fixed = col_fixed, !.row_fixed = row_fixed]

\* Formula.__init__; args is a sequence of Arg records
FormulaInit(name, args, value) ==
    [ExpressionInit(BaseNode, value) EXCEPT
        !.kind = "Formula", !.name = name, !.args = args]

\* an argument of a Formula: None, an Expression (heap index) or a scalar
ArgNone     == [k |-> "None", i |-> 0, v |-> IntVal(0)]
ArgExpr(i)  == [k |-> "expr", i |-> i, v |-> IntVal(0)]
ArgRaw(v)   == [k |-> "raw",  i |-> 0, v |-> v]

\* ArrayExpression.__init__: Expression.__init__(self, expr) stores the
\* wrapped expression as the value
ArrayExpressionInit(expr) ==
    [BaseNode EXCEPT
        !.kind = "ArrayExpression", !.expr = expr,
        !.valset = TRUE, !.valref = expr]

\* ConstExpr.__init__
ConstExprInit(value) ==
    [BaseNode EXCEPT
        !.kind = "ConstExpr", !.cvalue = value,
        !.valset = TRUE, !.val = value]

\* ArrayConstant.__init__; array is a sequence of rows of ints
ArrayConstantInit(array, value) ==
    [ExpressionInit(BaseNode, value) EXCEPT
        !.kind = "ArrayConstant", !.cvalue = ListVal(array),
        !.valset = TRUE, !.valref = 0, !.val = ListVal(array)]

RECURSIVE has_value(_, _)
\* Expression.has_value
has_value(h, i) ==
    IF ~h[i].valset THEN FALSE
    ELSE IF h[i].valref # 0 THEN has_value(h, h[i].valref)
    ELSE TRUE

RECURSIVE value(_, _)
\* Expression.value
value(h, i) ==
    IF ~h[i].valset THEN IntVal(0)
    ELSE IF h[i].valref # 0 THEN value(h, h[i].valref)
    ELSE h[i].val

\* BinOp.__init__(lhs, rhs, op): the object, or the error raised while the
\* preview value is computed
BinOpInit(h, lhs, rhs, op, kwvalue) ==
    LET node == [ExpressionInit(BaseNode, kwvalue) EXCEPT
                    !.kind = "BinOp", !.lhs = lhs, !.rhs = rhs, !.op = op]
        r    == ApplyOperator(op, value(h, lhs), value(h, rhs))
    IN  IF has_value(h, lhs) /\ has_value(h, rhs)
        THEN IF r.ok
             THEN [ok |-> TRUE, err |-> "",
                   node |-> [node EXCEPT !.valset = TRUE, !.valref = 0,
                                         !.val = r.v]]
             ELSE [ok |-> FALSE, err |-> r.err, node |-> node]
        ELSE [ok |-> TRUE, err |-> "", node |-> node]

---------------------------------------------------------------------------
(* resolve *)

\* the outcome of resolve / get_formula: the text, or the error raised
Text(t)    == [ok |-> TRUE,  t |-> t,     err |-> ""]
Failed(e)  == [ok |-> FALSE, t |-> << >>, err |-> e]

\* a flag that may be None: fixed unless None or False (Python truth)
Truthy(flag) == flag = "True"

\* Cell.resolve with `flag or default` in place of `flag if flag is not None
\* else default`: an explicit False does not override a default of True
CellResolveFalsyFlag(lay, n, row, col) ==
    LET tw         == get_table(lay, n.table)
        col_offset == get_column_offset(lay, n.col)
        given      == n.row # "None"
        row_label  == get_row_offset(lay, n.row)
        r          == IF given THEN row_label.v ELSE row
        row_fixed  == n.row_fixed = "True" \/ given
        col_fixed  == n.col_fixed = "True" \/ given
    IN  IF ~tw.ok \/ ~col_offset.ok \/ (given /\ ~row_label.ok)
        THEN Failed("KeyError")
        ELSE Text(_to_addr(tw.worksheet, tw.top + r + n.row_offset,
                           tw.left + col_offset.v, row_fixed, col_fixed))

\* Cell.resolve
CellResolve(lay, n, row, col) ==
    LET tw         == get_table(lay, n.table)
        col_offset == get_column_offset(lay, n.col)
        given      == n.row # "None"
        row_label  == get_row_offset(lay, n.row)
        r          == IF given THEN row_label.v ELSE row
        row_fixed  == IF n.row_fixed # "None" THEN n.row_fixed = "True" ELSE given
        col_fixed  == IF n.col_fixed # "None" THEN n.col_fixed = "True" ELSE given
    IN  IF ~tw.ok \/ ~col_offset.ok \/ (given /\ ~row_label.ok)
        THEN Failed("KeyError")
        ELSE Text(_to_addr(tw.worksheet, tw.top + r + n.row_offset,
                           tw.left + col_offset.v, row_fixed, col_fixed))

\* "'%s'!%s:%s" % (worksheet.name, first, last)
SheetRange(worksheet, first, last) ==
    << "'" >> \o worksheet \o << "'", "!" >> \o first \o << ":" >> \o last

\* Column.resolve with the last row one too far: top + table.height
ColumnResolveOffByOne(lay, n, row, col) ==
    LET tw         == get_table(lay, n.table)
        col_offset == get_column_offset(lay, n.col)
        row_offset == IF n.include_header THEN 0 ELSE lay.header_height
    IN  IF ~tw.ok \/ ~col_offset.ok
        THEN Failed("KeyError")
        ELSE Text(SheetRange(tw.worksheet,
                 _to_addr(<< >>, tw.top + row_offset, tw.left + col_offset.v,
                          Truthy(n.row_fixed), Truthy(n.col_fixed)),
                 _to_addr(<< >>, tw.top + lay.height, tw.left + col_offset.v,
                          Truthy(n.row_fixed), Truthy(n.col_fixed))))

\* Column.resolve
ColumnResolve(lay, n, row, col) ==
    LET tw         == get_table(lay, n.table)
        col_offset == get_column_offset(lay, n.col)
        row_offset == IF n.include_header THEN 0 ELSE lay.header_height
    IN  IF ~tw.ok \/ ~col_offset.ok
        THEN Failed("KeyError")
        ELSE Text(SheetRange(tw.worksheet,
                 _to_addr(<< >>, tw.top + row_offset, tw.left + col_offset.v,
                          Truthy(n.row_fixed), Truthy(n.col_fixed)),
                 _to_addr(<< >>, tw.top + lay.height - 1, tw.left + col_offset.v,
                          Truthy(n.row_fixed), Truthy(n.col_fixed))))

\* Index.resolve
IndexResolve(lay, n, row, col) ==
    LET tw         == get_table(lay, n.table)
        col_offset == get_index_offset(lay)
        row_offset == IF n.include_header THEN 0 ELSE lay.header_height
    IN  IF ~tw.ok
        THEN Failed("KeyError")
        ELSE Text(SheetRange(tw.worksheet,
                 _to_addr(<< >>, tw.top + row_offset, tw.left + col_offset,
                          Truthy(n.row_fixed), Truthy(n.col_fixed)),
                 _to_addr(<< >>, tw.top + lay.height - 1, tw.left + col_offset,
                          Truthy(n.row_fixed), Truthy(n.col_fixed))))

\* Range.resolve with `elif not self.__bottom` in place of
\* `elif self.__bottom is False`: the row label 0 counts as False
RangeResolveFalsyBottom(lay, n, row, col) ==
    LET tw               == get_table(lay, n.table)
        left_col_offset  == get_column_offset(lay, n.left_col)
        right_col_offset == get_column_offset(lay, n.right_col)
        top_label        == get_row_offset(lay, n.top)
        bottom_label     == get_row_offset(lay, n.bottom)
        top_row_offset   ==
            IF n.top = "None"
            THEN (IF n.include_header THEN 0 ELSE lay.header_height)
            ELSE top_label.v
        bottom_row_offset ==
            IF n.bottom = "None" THEN lay.height - 1
            ELSE IF n.bottom \in {"False", "0"} THEN top_row_offset
            ELSE bottom_label.v
    IN  IF \/ ~tw.ok \/ ~left_col_offset.ok \/ ~right_col_offset.ok
           \/ (n.top # "None" /\ ~top_label.ok)
           \/ (n.bottom \notin {"None", "False", "0"} /\ ~bottom_label.ok)
        THEN Failed("KeyError")
        ELSE Text(SheetRange(tw.worksheet,
                 _to_addr(<< >>, tw.top + top_row_offset,
                          tw.left + left_col_offset.v,
                          Truthy(n.row_fixed), Truthy(n.col_fixed)),
                 _to_addr(<< >>, tw.top + bottom_row_offset,
                          tw.left + right_col_offset.v,
                          Truthy(n.row_fixed), Truthy(n.col_fixed))))

\* Range.resolve
RangeResolve(lay, n, row, col) ==
    LET tw               == get_table(lay, n.table)
        left_col_offset  == get_column_offset(lay, n.left_col)
        right_col_offset == get_column_offset(lay, n.right_col)
        top_label        == get_row_offset(lay, n.top)
        bottom_label     == get_row_offset(lay, n.bottom)
        top_row_offset   ==
            IF n.top = "None"
            THEN (IF n.include_header THEN 0 ELSE lay.header_height)
            ELSE top_label.v
        bottom_row_offset ==
            IF n.bottom = "None" THEN lay.height - 1
            ELSE IF n.bottom = "False" THEN top_row_offset
            ELSE bottom_label.v
    IN  IF \/ ~tw.ok \/ ~left_col_offset.ok \/ ~right_col_offset.ok
           \/ (n.top # "None" /\ ~top_label.ok)
           \/ (n.bottom \notin {"None", "False"} /\ ~bottom_label.ok)
        THEN Failed("KeyError")
        ELSE Text(SheetRange(tw.worksheet,
                 _to_addr(<< >>, tw.top + top_row_offset,
                          tw.left + left_col_offset.v,
                          Truthy(n.row_fixed), Truthy(n.col_fixed)),
                 _to_addr(<< >>, tw.top + bottom_row_offset,
                          tw.left + right_col_offset.v,
                          Truthy(n.row_fixed), Truthy(n.col_fixed))))

\* ConstExpr.resolve (the constants of the model are str, bool and int)
ConstExprResolve(v) ==
    IF v.k = "str" THEN Text(<< "\"" >> \o v.s \o << "\"" >>)
    ELSE IF v.k = "bool"
    THEN Text(IF v.n = 1 THEN << "T", "R", "U", "E" >>
              ELSE << "F", "A", "L", "S", "E" >>)
    ELSE Text(IntText(v.n))

RECURSIVE RowTexts(_)
\* map(str, row)
RowTexts(row) ==
    IF Len(row) = 0 THEN << >>
    ELSE << IntText(row[1]) >> \o RowTexts(Tail(row))

RECURSIVE RowsJoined(_)
\* [",".join(map(str, row)) for row in array]
RowsJoined(array) ==
    IF Len(array) = 0 THEN << >>
    ELSE << Join(RowTexts(array[1]), << "," >>) >> \o RowsJoined(Tail(array))

\* ArrayConstant.resolve
ArrayConstantResolve(v) ==
    Text(<< "{" >> \o Join(RowsJoined(v.a), << ";" >>) \o << "}" >>)

\* BinOp.resolve, given the outcomes of resolving lhs and rhs
BinOpResolve(l, op, r) ==
    IF ~l.ok THEN l
    ELSE IF ~r.ok THEN r
    ELSE Text(<< "(" >> \o l.t \o op \o r.t \o << ")" >>)

\* to_arg without self._strip: the argument keeps its parentheses
to_argUnstripped(arg, r) ==
    IF arg.k = "None" THEN Text(<< >>)
    ELSE r

\* to_arg of Formula.resolve, given the outcome of resolving the argument
\* (None is never resolved)
to_arg(arg, r) ==
    IF arg.k = "None" THEN Text(<< >>)
    ELSE IF ~r.ok THEN r
    ELSE Text(_strip(r.t))

RECURSIVE FirstFailed(_)
\* the error of the first argument that raised, in argument order
FirstFailed(rs) ==
    IF Len(rs) = 0 THEN Text(<< >>)
    ELSE IF ~rs[1].ok THEN rs[1]
    ELSE FirstFailed(Tail(rs))

\* Formula.resolve, given the to_arg outcome of each argument in order
FormulaResolve(name, rs) ==
    IF ~FirstFailed(rs).ok THEN FirstFailed(rs)
    ELSE Text(name \o << "(" >>
              \o Join([k \in 1..Len(rs) |-> rs[k].t], << "," >>)
              \o << ")" >>)

\* _make_expr(x) for a scalar x
_make_expr(x) == ConstExprInit(x)

RECURSIVE resolve(_, _, _, _, _)
\* self.resolve(workbook, row, col) of the object at heap index i
resolve(lay, h, i, row, col) ==
    LET n == h[i]
        ArgOutcome(arg) ==
            IF arg.k = "expr" THEN to_arg(arg, resolve(lay, h, arg.i, row, col))
            ELSE IF arg.k = "raw"
            THEN to_arg(arg, ConstExprResolve(_make_expr(arg.v).cvalue))
            ELSE to_arg(arg, Text(<< >>))
    IN  CASE n.kind = "Cell"   -> CellResolve(lay, n, row, col)
          [] n.kind = "Column" -> ColumnResolve(lay, n, row, col)
          [] n.kind = "Index"  -> IndexResolve(lay, n, row, col)
          [] n.kind = "Range"  -> RangeResolve(lay, n, row, col)
          [] n.kind = "ConstExpr" -> ConstExprResolve(n.cvalue)
          [] n.kind = "ArrayConstant" -> ArrayConstantResolve(n.cvalue)
          [] n.kind = "ArrayExpression" -> resolve(lay, h, n.expr, row, col)
          [] n.kind = "BinOp" ->
                BinOpResolve(resolve(lay, h, n.lhs, row, col), n.op,
                             resolve(lay, h, n.rhs, row, col))
          [] n.kind = "Formula" ->
                FormulaResolve(n.name,
                    [k \in 1..Len(n.args) |-> ArgOutcome(n.args[k])])

\* Expression.get_formula without the "=" in front
ExpressionGetFormulaNoEquals(r) ==
    IF ~r.ok THEN r ELSE Text(_strip(r.t))

\* Expression.get_formula, given the outcome of self.resolve
ExpressionGetFormula(r) ==
    IF ~r.ok THEN r ELSE Text(<< "=" >> \o _strip(r.t))

\* ArrayExpression.get_formula, given the outcome of the wrapped
\* expression's get_formula
ArrayExpressionGetFormula(f) ==
    IF ~f.ok THEN f
    ELSE Text(<< "{" >> \o StripChars(f.t, {"{", "}"}) \o << "}" >>)

RECURSIVE get_formula(_, _, _, _, _)
\* self.get_formula(workbook, row, col) of the object at heap index i
get_formula(lay, h, i, row, col) ==
    IF h[i].kind = "ArrayExpression"
    THEN ArrayExpressionGetFormula(get_formula(lay, h, h[i].expr, row, col))
    ELSE ExpressionGetFormula(resolve(lay, h, i, row, col))

---------------------------------------------------------------------------
(* The caller's operations *)

\* the record of a call: what was called, on which object (heap index, 0
\* for none) with which arguments, and its outcome
NoCall ==
    [op |-> "", target |-> 0, row |-> 0, col |-> 0, worksheet |-> << >>,
     row_fixed |-> FALSE, col_fixed |-> FALSE, sym |-> << >>,
     lhs |-> 0, rhs |-> 0, ok |-> TRUE, err |-> "", text |-> << >>]

\* the layout of the specification's end-to-end scenario: a table at (0,0)
\* of height 3 with one header row and column x at offset 0
ScenarioLayout ==
    [top |-> 0, left |-> 0, height |-> 3, header_height |-> 1, xoff |-> 0]

\* a call of _to_addr(worksheet, row, col, row_fixed, col_fixed) about to
\* be made with these arguments
ToAddrArgs(worksheet, row, col, row_fixed, col_fixed) ==
    [NoCall EXCEPT
        !.op = "call _to_addr", !.worksheet = worksheet, !.row = row,
        !.col = col, !.row_fixed = row_fixed, !.col_fixed = col_fixed]

\* _to_addr runs on the arguments of the pending call and returns
ToAddr ==
    /\ call.op = "call _to_addr"
    /\ call' = [call EXCEPT
                  !.op = "_to_addr",
                  !.text = _to_addr(call.worksheet, call.row, call.col,
                                    call.row_fixed, call.col_fixed)]
    /\ UNCHANGED <<layout, heap>>

\* heap[i].resolve(workbook, row, col)
Resolve(i, row, col) ==
    LET r == resolve(layout, heap, i, row, col)
    IN  /\ i \in 1..Len(heap)
        /\ call' = [NoCall EXCEPT
                      !.op = "resolve", !.target = i, !.row = row, !.col = col,
                      !.ok = r.ok, !.err = r.err, !.text = r.t]
        /\ UNCHANGED <<layout, heap>>

\* heap[i].get_formula(workbook, row, col)
GetFormula(i, row, col) ==
    LET r == get_formula(layout, heap, i, row, col)
    IN  /\ i \in 1..Len(heap)
        /\ call' = [NoCall EXCEPT
                      !.op = "get_formula", !.target = i, !.row = row,
                      !.col = col, !.ok = r.ok, !.err = r.err, !.text = r.t]
        /\ UNCHANGED <<layout, heap>>

\* a constructor that cannot raise: the new object joins the heap
Construct(class, node) ==
    /\ Len(heap) < MaxNodes
    /\ heap' = Append(heap, node)
    /\ call' = [NoCall EXCEPT !.op = class, !.target = Len(heap) + 1]
    /\ UNCHANGED layout

\* BinOp(lhs, rhs, op), called as `how`: the new object joins the heap
\* unless __init__ raised
ConstructBinOp(how, lhs, rhs, sym) ==
    LET b == BinOpInit(heap, lhs, rhs, sym, NoValue)
    IN  /\ Len(heap) < MaxNodes
        /\ lhs \in 1..Len(heap)
        /\ rhs \in 1..Len(heap)
        /\ heap' = IF b.ok THEN Append(heap, b.node) ELSE heap
        /\ call' = [NoCall EXCEPT
                      !.op = how, !.sym = sym, !.lhs = lhs, !.rhs = rhs,
                      !.target = IF b.ok THEN Len(heap) + 1 ELSE 0,
                      !.ok = b.ok, !.err = b.err]
        /\ UNCHANGED layout

\* the operator symbols of Expression.__add__ .. Expression.__and__
OverloadSymbols ==
    { <<"+">>, <<"-">>, <<"*">>, <<"/">>, <<"<">>, <<"<", "=">>, <<"=">>,
      <<"<", ">">>, <<">">>, <<">", "=">>, <<"&">> }

\* heap[lhs] <sym> heap[rhs] through the overloaded operator of Expression
Overload(lhs, rhs, sym) ==
    /\ sym \in OverloadSymbols
    /\ ConstructBinOp("overload", lhs, rhs, sym)

\* BinOp(heap[lhs], heap[rhs], sym) constructed directly
NewBinOp(lhs, rhs, sym) == ConstructBinOp("BinOp", lhs, rhs, sym)

NewArrayExpression(i) ==
    /\ i \in 1..Len(heap)
    /\ Construct("ArrayExpression", ArrayExpressionInit(i))

NewFormula(name, args) ==
    /\ \A k \in 1..Len(args) : args[k].k = "expr" => args[k].i \in 1..Len(heap)
    /\ Construct("Formula", FormulaInit(name, args, NoValue))

\* the most recently constructed object
Newest == Len(heap)

---------------------------------------------------------------------------
(* Specifications *)

Tri == {"None", "True", "False"}
Flag == {"True", "False"}

\* -- the address codec applied to every row, column, worksheet and flags
InitAddr ==
    /\ layout = ScenarioLayout
    /\ heap = << >>
    /\ call \in { ToAddrArgs(worksheet, row, col, row_fixed, col_fixed) :
                    worksheet \in {<< >>, Sheet1}, row \in 0..MaxAddrRow,
                    col \in 0..MaxAddrCol, row_fixed \in BOOLEAN,
                    col_fixed \in BOOLEAN }

NextAddr == ToAddr

SpecAddr == InitAddr /\ [][NextAddr]_vars

\* -- one reference object, resolved at every ambient row and column
NextResolve ==
    \E i \in 1..Len(heap), row \in 0..MaxRow, col \in {0, MaxRow} :
        Resolve(i, row, col)

Cells ==
    { CellInit(col, row, row_offset, table, col_fixed, row_fixed, NoValue) :
        col \in {"x", "q"}, row \in {"None", "0", "r1"}, row_offset \in {0, 1},
        table \in {"None", "T2"}, col_fixed \in Tri, row_fixed \in Tri }

InitCell ==
    /\ layout \in Layouts
    /\ heap \in { << c >> : c \in Cells }
    /\ call = NoCall

SpecCell == InitCell /\ [][NextResolve]_vars

Columns ==
    { ColumnInit(col, include_header, table, col_fixed, row_fixed, NoValue) :
        col \in {"x", "y", "q"}, include_header \in BOOLEAN,
        table \in {"None", "T2"}, col_fixed \in Flag, row_fixed \in Flag }

Indexes ==
    { IndexInit(include_header, table, col_fixed, row_fixed, NoValue) :
        include_header \in BOOLEAN, table \in {"None", "T2"},
        col_fixed \in Flag, row_fixed \in Flag }

InitColumn ==
    /\ layout \in Layouts
    /\ heap \in { << c >> : c \in Columns \cup Indexes }
    /\ call = NoCall

SpecColumn == InitColumn /\ [][NextResolve]_vars

Ranges ==
    { RangeInit(left_col, right_col, top_row, bottom_row, include_header,
                "None", col_fixed, row_fixed, NoValue) :
        left_col \in {"x", "y"}, right_col \in {"x", "y"},
        top_row \in {"None", "0", "r1"},
        bottom_row \in {"None", "False", "0", "r1"},
        include_header \in BOOLEAN, col_fixed \in Flag, row_fixed \in Flag }

InitRange ==
    /\ layout \in Layouts
    /\ heap \in { << c >> : c \in Ranges }
    /\ call = NoCall

SpecRange == InitRange /\ [][NextResolve]_vars

\* -- a session that builds a tree over one reference or constant and
\* renders each object as it is built, for the cell (MaxRow, 0); the column
\* "q" is not in the table
Leaves ==
    { CellInit("x", "None", 0, "None", "None", "None", NoValue),
      CellInit("q", "None", 0, "None", "None", "None", NoValue),
      DefaultColumn("x", FALSE),
      IndexInit(FALSE, "None", "True", "True", NoValue),
      RangeInit("x", "y", "None", "None", TRUE, "None", "True", "True", NoValue),
      ConstExprInit(IntVal(2)),
      ConstExprInit(StrVal(<< "x" >>)),
      ArrayConstantInit(<< <<1, 2>>, <<3, 4>> >>, NoValue) }

SUM == << "S", "U", "M" >>

\* the argument lists of the Formula calls a session makes over the objects
\* it holds: one or two arguments, with a None gap or a scalar among them
ArgLists ==
    { << ArgExpr(i) >> : i \in 1..Len(heap) }
    \cup { << ArgNone, ArgExpr(i) >> : i \in 1..Len(heap) }
    \cup { << ArgExpr(i), ArgRaw(StrVal(<< "y" >>)) >> : i \in 1..Len(heap) }
    \cup { << ArgExpr(i), ArgExpr(Newest) >> : i \in 1..Len(heap) }

InitExpr ==
    /\ layout = ScenarioLayout
    /\ heap \in { << n >> : n \in Leaves }
    /\ call = NoCall

NextExpr ==
    \/ \E lhs \in 1..Len(heap), rhs \in 1..Len(heap) :
          Overload(lhs, rhs, << "+" >>)
    \/ \E args \in ArgLists : NewFormula(SUM, args)
    \/ \E i \in 1..Len(heap) : NewArrayExpression(i)
    \/ Resolve(Newest, MaxRow, 0)
    \/ GetFormula(Newest, MaxRow, 0)

SpecExpr == InitExpr /\ [][NextExpr]_vars

\* -- a session that combines constants and cells with every operator
ValueLeaves ==
    { ConstExprInit(IntVal(2)), ConstExprInit(IntVal(3)),
      ConstExprInit(IntVal(0)), ConstExprInit(BoolVal(TRUE)),
      ConstExprInit(StrVal(<< "x" >>)),
      CellInit("x", "None", 0, "None", "None", "None", NoValue),
      CellInit("y", "None", 0, "None", "None", "None", Valued(IntVal(3))) }

\* symbols given to BinOp directly, beside those of the overloads
DirectSymbols == { <<"%">>, <<"|">>, <<"!", "=">> }

InitValue ==
    /\ layout = ScenarioLayout
    /\ heap = << >>
    /\ call = NoCall

NextValue ==
    \/ \E n \in ValueLeaves : Construct(n.kind, n)
    \/ \E lhs \in 1..Len(heap), rhs \in 1..Len(heap), sym \in OverloadSymbols :
          Overload(lhs, rhs, sym)
    \/ \E lhs \in 1..Len(heap), rhs \in 1..Len(heap), sym \in DirectSymbols :
          NewBinOp(lhs, rhs, sym)
    \/ Len(heap) > 0 /\ Resolve(Newest, 0, 0)
    \/ Len(heap) > 0 /\ GetFormula(Newest, 0, 0)

SpecValue == InitValue /\ [][NextValue]_vars

---------------------------------------------------------------------------
(* Reading text back: used to state the claims, not by the program *)

LetterValue(c) == CHOOSE i \in 1..Len(Alphabet) : Alphabet[i] = c
DigitValue(c)  == (CHOOSE i \in 1..Len(Digits) : Digits[i] = c) - 1

IsLetters(t) == \A k \in 1..Len(t) : \E i \in 1..Len(Alphabet) : Alphabet[i] = t[k]
IsDigits(t)  == \A k \in 1..Len(t) : \E i \in 1..Len(Digits) : Digits[i] = t[k]

RECURSIVE DecodeLetters(_)
\* the number a bijective base-26 numeral over A..Z (A = 1 .. Z = 26) denotes
DecodeLetters(t) ==
    IF Len(t) = 0 THEN 0
    ELSE 26 * DecodeLetters(SubSeq(t, 1, Len(t) - 1)) + LetterValue(t[Len(t)])

RECURSIVE DecodeDecimal(_)
\* the number a decimal numeral denotes
DecodeDecimal(t) ==
    IF Len(t) = 0 THEN 0
    ELSE 10 * DecodeDecimal(SubSeq(t, 1, Len(t) - 1)) + DigitValue(t[Len(t)])

RECURSIVE LetterRun(_)
\* the length of the longest prefix of t made of letters A..Z
LetterRun(t) ==
    IF Len(t) > 0 /\ IsLetters(<< t[1] >>) THEN 1 + LetterRun(Tail(t)) ELSE 0

StartsWith(t, p) == Len(t) >= Len(p) /\ SubSeq(t, 1, Len(p)) = p
Drop(t, k)       == SubSeq(t, k + 1, Len(t))

\* t is [$]letters[$]digits with the "$" signs as the flags say, letters the
\* bijective base-26 numeral of col + 1 and digits the decimal of row + 1
IsAddr(t, row, col, row_fixed, col_fixed) ==
    LET a       == IF col_fixed THEN Drop(t, 1) ELSE t
        letters == SubSeq(a, 1, LetterRun(a))
        b       == Drop(a, Len(letters))
        digits  == IF row_fixed THEN Drop(b, 1) ELSE b
    IN  /\ col_fixed => StartsWith(t, << "$" >>)
        /\ row_fixed => StartsWith(b, << "$" >>)
        /\ Len(letters) >= 1
        /\ DecodeLetters(letters) = col + 1
        /\ Len(digits) >= 1
        /\ IsDigits(digits)
        /\ digits[1] # "0"
        /\ DecodeDecimal(digits) = row + 1

\* the "'<worksheet>'!" qualifier
Qualifier(worksheet) == << "'" >> \o worksheet \o << "'", "!" >>

---------------------------------------------------------------------------
(* C4 *)

\* C4: for all row >= 0 and col >= 0, _to_addr returns the sheet qualifier
\* (when a worksheet name is given), "$" when col_fixed, the letters, "$"
\* when row_fixed and the decimal of row + 1, where the letters are the
\* bijective base-26 numeral of col + 1 (0 -> A, 25 -> Z, 26 -> AA), so that
\* decoding them gives back the column.
C4_ToAddrFormat ==
    call.op = "_to_addr" =>
        LET q    == IF Len(call.worksheet) > 0 THEN Qualifier(call.worksheet)
                    ELSE << >>
            rest == Drop(call.text, Len(q))
        IN  /\ StartsWith(call.text, q)
            /\ IsAddr(rest, call.row, call.col, call.row_fixed, call.col_fixed)
            /\ (call.col = 0 /\ ~call.col_fixed) => StartsWith(rest, << "A" >>)
            /\ (call.col = 25 /\ ~call.col_fixed) => StartsWith(rest, << "Z" >>)
            /\ (call.col = 26 /\ ~call.col_fixed) => StartsWith(rest, << "A", "A" >>)

\* a three letter column on a two digit row, qualified and fixed
C4_Witness ==
    /\ call.op = "_to_addr"
    /\ call.col = 702
    /\ call.row = 10
    /\ call.text = Qualifier(Sheet1) \o << "$", "A", "A", "A", "$", "1", "1" >>

\* the position of the ":" of a range text
ColonPos(t) == CHOOSE k \in 1..Len(t) : t[k] = ":"

\* t is "'<worksheet>'!<first>:<last>", the worksheet named once, first and
\* last the addresses of (row1, col1) and (row2, col2) with the given flags
IsSheetRange(t, worksheet, row1, col1, row2, col2, row_fixed, col_fixed) ==
    LET q    == Qualifier(worksheet)
        rest == Drop(t, Len(q))
    IN  /\ StartsWith(t, q)
        /\ \E k \in 1..Len(rest) : rest[k] = ":"
        /\ IsAddr(SubSeq(rest, 1, ColonPos(rest) - 1), row1, col1,
                  row_fixed, col_fixed)
        /\ IsAddr(Drop(rest, ColonPos(rest)), row2, col2, row_fixed, col_fixed)

---------------------------------------------------------------------------
(* C6 *)

\* C6: Column(label).resolve and Index().resolve return
\* "'<worksheet>'!<top>:<bottom>" with the worksheet named once, both ends in
\* the same column (table left + the column's offset, or the index offset),
\* top row = table top + (0 if include_header else header_height), bottom
\* row = table top + height - 1, both ends with the configured fixed flags
\* (both fixed by default), whatever the ambient row and col; in the
\* scenario layout column x gives "'Sheet1'!$A$2:$A$3", and
\* "'Sheet1'!$A$1:$A$3" with include_header.
C6_ColumnSpan ==
    (call.op = "resolve" /\ call.ok) =>
        LET n        == heap[call.target]
            tw       == get_table(layout, n.table)
            c        == tw.left + (IF n.kind = "Column"
                                   THEN get_column_offset(layout, n.col).v
                                   ELSE get_index_offset(layout))
            top_row  == tw.top + (IF n.include_header THEN 0
                                  ELSE layout.header_height)
            last_row == tw.top + layout.height - 1
        IN  /\ IsSheetRange(call.text, tw.worksheet, top_row, c, last_row, c,
                            n.row_fixed = "True", n.col_fixed = "True")
            /\ (layout = ScenarioLayout /\ n = DefaultColumn("x", FALSE)) =>
                  call.text = Qualifier(Sheet1)
                      \o << "$", "A", "$", "2", ":", "$", "A", "$", "3" >>
            /\ (layout = ScenarioLayout /\ n = DefaultColumn("x", TRUE)) =>
                  call.text = Qualifier(Sheet1)
                      \o << "$", "A", "$", "1", ":", "$", "A", "$", "3" >>

\* the scenario's Column("x") resolved at an ambient cell other than (0, 0)
C6_Witness ==
    /\ call.op = "resolve"
    /\ call.ok
    /\ call.row = MaxRow
    /\ call.col = MaxRow
    /\ layout = ScenarioLayout
    /\ heap[call.target] = DefaultColumn("x", FALSE)
    /\ call.text = Qualifier(Sheet1)
                      \o << "$", "A", "$", "2", ":", "$", "A", "$", "3" >>

---------------------------------------------------------------------------
(* C7 *)

\* C7: Cell.resolve encodes the sheet qualified address of
\* (table top + r + row_offset, table left + column offset), r being the
\* table's offset of the row label when one is given and the ambient row
\* otherwise; the row and column flags each default to fixed when a row
\* label is given and to relative when none is, and a flag set explicitly
\* (True or False) overrides the default, independently for row and column.
C7_CellAddress ==
    (call.op = "resolve" /\ call.ok) =>
        LET n         == heap[call.target]
            tw        == get_table(layout, n.table)
            labelled  == n.row # "None"
            r         == IF labelled THEN get_row_offset(layout, n.row).v
                         ELSE call.row
            row_fixed == IF n.row_fixed = "None" THEN labelled
                         ELSE n.row_fixed = "True"
            col_fixed == IF n.col_fixed = "None" THEN labelled
                         ELSE n.col_fixed = "True"
            q         == Qualifier(tw.worksheet)
        IN  /\ StartsWith(call.text, q)
            /\ IsAddr(Drop(call.text, Len(q)), tw.top + r + n.row_offset,
                      tw.left + get_column_offset(layout, n.col).v,
                      row_fixed, col_fixed)

\* a cell with a row label, the row explicitly relative, the column left to
\* its default, one row below the label
C7_Witness ==
    /\ call.op = "resolve"
    /\ call.ok
    /\ heap[call.target].row = "r1"
    /\ heap[call.target].row_fixed = "False"
    /\ heap[call.target].col_fixed = "None"
    /\ heap[call.target].row_offset = 1
    /\ layout = ScenarioLayout
    /\ heap[call.target].table = "None"
    /\ call.text = Qualifier(Sheet1) \o << "$", "A", "4" >>

---------------------------------------------------------------------------
(* C8 *)

\* C8: Range.resolve returns the sheet qualified pair top-left:bottom-right;
\* the columns are table left + the offsets of left_col and right_col, the
\* top row offset is (0 if include_header else header_height) when top_row
\* is None and the offset of top_row otherwise, the bottom row offset is
\* height - 1 when bottom_row is None, equal to the top row offset when
\* bottom_row is False, and the offset of bottom_row otherwise (also for a
\* label that is falsy but not False, such as 0).
C8_RangeCorners ==
    (call.op = "resolve" /\ call.ok) =>
        LET n      == heap[call.target]
            tw     == get_table(layout, n.table)
            top    == IF n.top = "None"
                      THEN (IF n.include_header THEN 0
                            ELSE layout.header_height)
                      ELSE get_row_offset(layout, n.top).v
            bottom == IF n.bottom = "None" THEN layout.height - 1
                      ELSE IF n.bottom = "False" THEN top
                      ELSE get_row_offset(layout, n.bottom).v
        IN  IsSheetRange(call.text, tw.worksheet,
                         tw.top + top,
                         tw.left + get_column_offset(layout, n.left_col).v,
                         tw.top + bottom,
                         tw.left + get_column_offset(layout, n.right_col).v,
                         n.row_fixed = "True", n.col_fixed = "True")

\* a range from the second data row down to the row labelled 0
C8_Witness ==
    /\ call.op = "resolve"
    /\ call.ok
    /\ heap[call.target].top = "r1"
    /\ heap[call.target].bottom = "0"
    /\ heap[call.target].left_col = "x"
    /\ heap[call.target].right_col = "y"
    /\ heap[call.target].row_fixed = "True"
    /\ heap[call.target].col_fixed = "False"
    /\ layout = ScenarioLayout
    /\ call.text = Qualifier(Sheet1) \o << "A", "$", "3", ":", "B", "$", "2" >>

\* the number of "(" less the number of ")" among the first k characters
Depth(t, k) ==
    Cardinality({ j \in 1..k : t[j] = "(" })
    - Cardinality({ j \in 1..k : t[j] = ")" })

\* t is wholly enclosed in one parenthesis pair: its first character is a
\* "(" that is closed by its last character and not before (the nesting
\* depth can only reach 0 at a ")")
Enclosed(t) ==
    /\ Len(t) >= 2
    /\ t[1] = "("
    /\ t[Len(t)] = ")"
    /\ Depth(t, Len(t)) = 0
    /\ \A k \in 1..(Len(t) - 1) : t[k] = ")" => Depth(t, k) > 0

\* t without its first and last character
Inner(t) == SubSeq(t, 2, Len(t) - 1)

\* the text resolve gives for the object at heap index i in this call
ResolvedText(i) == resolve(layout, heap, i, call.row, call.col).t

GotFormula == call.op = "get_formula" /\ call.ok

---------------------------------------------------------------------------
(* C1 *)

\* C1 as stated: for every expression variant (ArrayExpression included)
\* and every layout for which resolution succeeds, the string returned by
\* get_formula begins with "=".
C1_AlwaysStartsWithEquals ==
    GotFormula => StartsWith(call.text, << "=" >>)

\* C1 as amended: get_formula of every variant other than ArrayExpression
\* begins with "="; get_formula of an ArrayExpression begins with "{="
\* (the "=" follows the opening brace of the array formula).
C1_StartsWithEqualsOrBrace ==
    GotFormula =>
        IF heap[call.target].kind = "ArrayExpression"
        THEN StartsWith(call.text, << "{", "=" >>)
        ELSE StartsWith(call.text, << "=" >>)

\* an ArrayExpression wrapping a BinOp was rendered
C1_Witness ==
    /\ GotFormula
    /\ heap[call.target].kind = "ArrayExpression"
    /\ heap[heap[call.target].expr].kind = "BinOp"

---------------------------------------------------------------------------
(* C3 *)

\* the parts of C3 that hold of the roots in `roots`
C3_For(roots) ==
    GotFormula =>
        LET n == heap[call.target]
            r == ResolvedText(call.target)
        IN  /\ ~(StartsWith(call.text, << "=" >>) /\ Enclosed(Drop(call.text, 1)))
            /\ n.kind = "BinOp" =>
                  /\ r = << "(" >> \o ResolvedText(n.lhs) \o n.op
                                   \o ResolvedText(n.rhs) \o << ")" >>
                  /\ call.text = << "=" >> \o ResolvedText(n.lhs) \o n.op
                                           \o ResolvedText(n.rhs)
            /\ (n.kind \in roots /\ ~Enclosed(r)) => call.text = << "=" >> \o r

AllKinds ==
    { "Cell", "Column", "Index", "Range", "Formula", "ArrayExpression",
      "ArrayConstant", "BinOp", "ConstExpr" }

---------------------------------------------------------------------------
(* C5 *)

\* a text without its "{" "}" wrapper, if it has one
Unwrapped(t) ==
    IF Len(t) >= 2 /\ t[1] = "{" /\ t[Len(t)] = "}" THEN Inner(t) ELSE t

\* C5: for every wrapped expression e (an ArrayConstant, a BinOp and another
\* ArrayExpression included), ArrayExpression(e).get_formula is the formula
\* text of e with any existing "{" "}" wrapper removed and then enclosed in
\* exactly one "{" "}" pair; wrapping an ArrayExpression in another gives the
\* same text as wrapping once.
C5_WrappedExactlyOnce ==
    (GotFormula /\ heap[call.target].kind = "ArrayExpression") =>
        LET e == heap[call.target].expr
            f == get_formula(layout, heap, e, call.row, call.col).t
        IN  /\ call.text = << "{" >> \o Unwrapped(f) \o << "}" >>
            /\ heap[e].kind = "ArrayExpression" => call.text = f

---------------------------------------------------------------------------
(* C9 *)

\* the text C9 gives for one argument of a Formula
C9_ArgText(arg) ==
    IF arg.k = "None" THEN << >>
    ELSE IF arg.k = "raw" THEN ConstExprResolve(arg.v).t
    ELSE IF Enclosed(ResolvedText(arg.i)) THEN Inner(ResolvedText(arg.i))
    ELSE ResolvedText(arg.i)

\* C9: Formula(name, a1, ..., an).resolve returns name "(" the arguments
\* joined by "," ")", in order and number, a None argument as the empty
\* string, a scalar argument as its ConstExpr text, every other argument as
\* its resolve text with exactly one fully enclosing parenthesis layer
\* removed.
C9_FormulaText ==
    (call.op = "resolve" /\ call.ok /\ heap[call.target].kind = "Formula") =>
        LET n == heap[call.target]
        IN  call.text =
              n.name \o << "(" >>
              \o Join([k \in 1..Len(n.args) |-> C9_ArgText(n.args[k])], << "," >>)
              \o << ")" >>

\* SUM(None, <a BinOp>) was resolved: an empty first slot, then the
\* operation without its parentheses
C9_Witness ==
    /\ call.op = "resolve"
    /\ call.ok
    /\ heap[call.target].kind = "Formula"
    /\ Len(heap[call.target].args) = 2
    /\ heap[call.target].args[1].k = "None"
    /\ heap[call.target].args[2].k = "expr"
    /\ heap[heap[call.target].args[2].i].kind = "BinOp"
    /\ StartsWith(call.text, << "S", "U", "M", "(", ",", "'" >>)

---------------------------------------------------------------------------
(* C2 *)

\* bit i of the two's complement integer x
Bit(x, i) == (x \div (2 ^ i)) % 2

\* v is the Python value of `a <sym> b` for two ints a and b (b # 0 for "/"),
\* sym read as the spreadsheet operator the overload stands for
C2_IsResult(sym, a, b, v) ==
    CASE sym = <<"+">> -> v.k = "int" /\ v.n = a + b
      [] sym = <<"-">> -> v.k = "int" /\ v.n = a - b
      [] sym = <<"*">> -> v.k = "int" /\ v.n = a * b
      [] sym = <<"/">> -> v.k = "float" /\ v.d # 0 /\ v.n * b = a * v.d
      [] sym = <<"<">> -> v.k = "bool" /\ (v.n = 1) = (a < b)
      [] sym = <<"<", "=">> -> v.k = "bool" /\ (v.n = 1) = (a <= b)
      [] sym = <<"=">> -> v.k = "bool" /\ (v.n = 1) = (a = b)
      [] sym = <<"<", ">">> -> v.k = "bool" /\ (v.n = 1) = (a # b)
      [] sym = <<">">> -> v.k = "bool" /\ (v.n = 1) = (a > b)
      [] sym = <<">", "=">> -> v.k = "bool" /\ (v.n = 1) = (a >= b)
      [] sym = <<"&">> ->
            /\ v.k = "int"
            /\ \A i \in 0..15 : Bit(v.n, i) = Bit(a, i) * Bit(b, i)
            /\ (v.n < 0) = (a < 0 /\ b < 0)

\* the claim of C2 for the overloads in `syms`, on int operands
C2_For(syms) ==
    (/\ call.op = "overload"
     /\ call.sym \in syms
     /\ has_value(heap, call.lhs)
     /\ has_value(heap, call.rhs)
     /\ value(heap, call.lhs).k = "int"
     /\ value(heap, call.rhs).k = "int"
     /\ ~(call.sym = <<"/">> /\ value(heap, call.rhs).n = 0))
    => /\ call.ok
       /\ has_value(heap, call.target)
       /\ C2_IsResult(call.sym, value(heap, call.lhs).n,
                      value(heap, call.rhs).n, value(heap, call.target))

\* C2: for every operator symbol the overloads of Expression produce
\* (+, -, *, /, <, <=, =, <>, >, >=, &) and every pair of operands that both
\* have a value, constructing the BinOp succeeds and yields a node that has
\* a value, equal to the matching operator applied to the operand values,
\* e.g. (ConstExpr(2) + ConstExpr(3)).value == 5.  Stated here for int
\* operands and a divisor other than 0.
C2_OverloadComputesValue == C2_For(OverloadSymbols)

---------------------------------------------------------------------------
(* C10 *)

RECURSIVE UsesSymbolOutside(_, _, _)
\* the tree under heap index i holds a BinOp whose symbol is not in syms
UsesSymbolOutside(h, i, syms) ==
    CASE h[i].kind = "BinOp" ->
            \/ h[i].op \notin syms
            \/ UsesSymbolOutside(h, h[i].lhs, syms)
            \/ UsesSymbolOutside(h, h[i].rhs, syms)
      [] h[i].kind = "ArrayExpression" -> UsesSymbolOutside(h, h[i].expr, syms)
      [] h[i].kind = "Formula" ->
            \E k \in 1..Len(h[i].args) :
                /\ h[i].args[k].k = "expr"
                /\ UsesSymbolOutside(h, h[i].args[k].i, syms)
      [] OTHER -> FALSE

\* C10: a BinOp built with an operator symbol outside the supported set
\* fails fast: whether or not the operands have values, constructing it or
\* resolving it raises, so that resolve and get_formula never return a text
\* for a tree that holds the unsupported operator.  (The symbols counted as
\* supported here are those of the overloads and those of BinOp.__operators.)
C10_UnsupportedOperatorRaises ==
    (/\ call.op \in {"resolve", "get_formula"}
     /\ UsesSymbolOutside(heap, call.target, OverloadSymbols \cup OperatorKeys))
    => ~call.ok

=============================================================================
